---- MODULE Spec2Model ----
(***************************************************************************)
(* geometamaker: template synthesis from a jsonschema definition           *)
(* (_get_default, _get_template), validation, and the life cycle of a      *)
(* MetadataControl object around a dataset and its sidecar document.       *)
(*                                                                         *)
(* Four specifications:                                                    *)
(*   SpecTemplate  the pure functions _get_default / _get_template applied *)
(*                 to schemas drawn from a bounded set, then validated;    *)
(*   Spec          MetadataControl: construction, setters, write(), with   *)
(*                 the dataset and the sidecar file as the environment.    *)
(*   SpecEdit      MetadataControl: the setters, validating or not, and    *)
(*                 write() on a document constructed without a sidecar.    *)
(*   SpecDescribe  MetadataControl: the description setters of fields and  *)
(*                 bands on a document constructed without a sidecar.      *)
(***************************************************************************)
EXTENDS Integers, Sequences, FiniteSets, TLC

VARIABLES
    schema,      \* SpecTemplate: the jsonschema definition passed in
    op,          \* SpecTemplate: which function was called
    result,      \* SpecTemplate: value returned (or the exception raised)
    result2,     \* SpecTemplate: value returned by a repeated call
    valid,       \* SpecTemplate: outcome of jsonschema.validate(result, schema)
    pc,          \* SpecTemplate: position of the caller
    dataset,     \* Spec: what the probes report about the file on disk
    sidecar,     \* Spec: the '<datasource>.yml' file
    mcf,         \* Spec: MetadataControl.mcf of the live instance
    lastOp,      \* Spec: the call that produced the current state
    calls        \* Spec: number of calls and events so far

tvars == <<schema, op, result, result2, valid, pc>>
mvars == <<dataset, sidecar, mcf, lastOp, calls>>
vars == <<schema, op, result, result2, valid, pc,
          dataset, sidecar, mcf, lastOp, calls>>

(***************************************************************************)
(* Bounds.                                                                 *)
(***************************************************************************)
MaxDepth == 2      \* nesting depth of the schemas given to _get_template
MaxAttrs == 2      \* fields of a vector / bands of a raster
MaxCalls == 5      \* calls and events in one run of Spec
MaxEdits == 3      \* calls in one run of SpecEdit

(***************************************************************************)
(* Python values.  A value is a one-field record whose field name is its   *)
(* Python type, so that '' (str), 0 (int), 0.0 (float), False, [] and {}   *)
(* are all different values.  An exception leaving a function is the       *)
(* value Raise(<exception class>).                                         *)
(***************************************************************************)
PyStr(s) == [str |-> s]
PyInt(n) == [int |-> n]
PyFloat(n) == [float |-> n]
PyBool(b) == [bool |-> b]
PyList(s) == [list |-> s]
PyDict(f) == [map |-> f]
Raise(e) == [err |-> e]

IsStr(v) == DOMAIN v = {"str"}
IsInt(v) == DOMAIN v = {"int"}
IsFloat(v) == DOMAIN v = {"float"}
IsBool(v) == DOMAIN v = {"bool"}
IsList(v) == DOMAIN v = {"list"}
IsDict(v) == DOMAIN v = {"map"}
IsErr(v) == DOMAIN v = {"err"}

None == [none |-> TRUE]

Keys(d) == DOMAIN d.map

(***************************************************************************)
(* A jsonschema definition is a dict; the model keeps the keywords the     *)
(* code looks at.  A keyword that is absent is <<>>, one that is present   *)
(* is a one-element tuple holding its value:                               *)
(*   type, $ref          a string                                         *)
(*   enum                a tuple of values                                 *)
(*   const               a value                                           *)
(*   properties          a function from property names to definitions     *)
(*   required            a set of names                                    *)
(*   items               a definition                                      *)
(*   patternProperties   the definition under the '^.*' pattern            *)
(*   extra               the dict's entries under names that are not       *)
(*                       keywords (the children of an 'anyOf' marker)      *)
(***************************************************************************)
Node == [type |-> <<>>, enum |-> <<>>, ref |-> <<>>, const |-> <<>>,
         properties |-> <<>>, required |-> <<>>, items |-> <<>>,
         patternProperties |-> <<>>, extra |-> <<>>]

Has(sch, kw) == sch[kw] # <<>>

TypeIs(sch, t) == Has(sch, "type") /\ sch.type[1] = t

\* Function (dict) f with key k set to v, added when missing.
DictSet(f, k, v) == [x \in (DOMAIN f) \cup {k} |-> IF x = k THEN v ELSE f[x]]

(***************************************************************************)
(* _get_default                                                            *)
(***************************************************************************)
default_values ==
    ("string" :> PyStr("")) @@ ("int" :> PyInt(0)) @@ ("integer" :> PyInt(0))
    @@ ("number" :> PyFloat(0)) @@ ("boolean" :> PyBool(FALSE))
    @@ ("#/definitions/date_or_datetime_string" :> PyStr(""))
    @@ ("#/definitions/i18n_string" :> PyStr(""))
    @@ ("#/definitions/i18n_array" :> PyList(<<>>))
    @@ ("#/definitions/any_type" :> PyStr(""))

\* The type name the default is looked up under: 'type', else '$ref'.
TypeName(item) == IF Has(item, "type") THEN item.type[1] ELSE item.ref[1]

\* Mutation: the default of an enum is its last value, and the table
\* holds the string 'false' for booleans.
_get_default_last(item) ==
    IF Has(item, "enum")
    THEN IF Len(item.enum[1]) = 0 THEN Raise("IndexError")
         ELSE item.enum[1][Len(item.enum[1])]
    ELSE IF ~Has(item, "type") /\ ~Has(item, "ref") THEN Raise("KeyError")
    ELSE IF TypeName(item) \notin DOMAIN default_values THEN Raise("KeyError")
    ELSE IF TypeName(item) = "boolean" THEN PyStr("false")
    ELSE default_values[TypeName(item)]

_get_default(item) ==
    IF Has(item, "enum")
    THEN IF Len(item.enum[1]) = 0 THEN Raise("IndexError")
         ELSE item.enum[1][1]
    ELSE IF ~Has(item, "type") /\ ~Has(item, "ref") THEN Raise("KeyError")
    ELSE IF TypeName(item) \notin DOMAIN default_values THEN Raise("KeyError")
    ELSE default_values[TypeName(item)]

(***************************************************************************)
(* _get_template                                                           *)
(***************************************************************************)
\* A dict built from the values f, unless building one of them raised:
\* then that exception leaves the function.
Collect(f) ==
    IF \E k \in DOMAIN f : IsErr(f[k])
    THEN f[CHOOSE k \in DOMAIN f : IsErr(f[k])]
    ELSE PyDict(f)

\* The schema that replaces a property carrying 'patternProperties'.
example_sch(sch) ==
    [Node EXCEPT !.type = <<"object">>,
                 !.required = <<{"default"}>>,
                 !.properties = <<[p \in {"default"} |->
                                      sch.patternProperties[1]]>>]

\* The dict under sch['properties']['anyOf'].
AnyOfItems(sch) ==
    IF Has(sch.properties[1]["anyOf"], "extra")
    THEN sch.properties[1]["anyOf"].extra[1]
    ELSE <<>>

RECURSIVE _get_template(_)

\* Value stored under template[prop] for the property definition sch0.
PropertyTemplate(sch0) ==
    LET sch == IF Has(sch0, "patternProperties") THEN example_sch(sch0)
               ELSE sch0
    IN  IF Has(sch, "properties") /\ "anyOf" \in DOMAIN sch.properties[1]
        THEN Collect([p \in DOMAIN AnyOfItems(sch) |->
                          _get_template(AnyOfItems(sch)[p])])
        ELSE _get_template(sch)

\* The properties the loop of the object branch does not skip.
KeptProperties(sch) ==
    {prop \in DOMAIN sch.properties[1] :
        ~(Has(sch, "required") /\ prop \notin sch.required[1])}

ObjectTemplate(sch) ==
    IF ~Has(sch, "properties") THEN Raise("KeyError")
    ELSE Collect([prop \in KeptProperties(sch) |->
                      PropertyTemplate(sch.properties[1][prop])])

\* Mutation: the inline properties of an array are not filtered by
\* 'required'.
ArrayTemplate_unfiltered(sch) ==
    IF Has(sch, "properties")
    THEN LET d == Collect([p \in DOMAIN sch.properties[1] |->
                               _get_template(sch.properties[1][p])])
         IN  IF IsErr(d) THEN d ELSE PyList(<<d>>)
    ELSE IF ~Has(sch, "items") THEN Raise("KeyError")
    ELSE LET e == _get_template(sch.items[1])
         IN  IF IsErr(e) THEN e ELSE PyList(<<e>>)

ArrayTemplate(sch) ==
    IF Has(sch, "properties")
    THEN IF DOMAIN sch.properties[1] = {} THEN PyList(<<PyDict(<<>>)>>)
         ELSE IF ~Has(sch, "required") THEN Raise("KeyError")
         ELSE LET d == Collect(
                      [p \in (DOMAIN sch.properties[1]) \cap sch.required[1]
                          |-> _get_template(sch.properties[1][p])])
              IN  IF IsErr(d) THEN d ELSE PyList(<<d>>)
    ELSE IF ~Has(sch, "items") THEN Raise("KeyError")
    ELSE LET e == _get_template(sch.items[1])
         IN  IF IsErr(e) THEN e ELSE PyList(<<e>>)

_get_template(sch) ==
    IF TypeIs(sch, "object") THEN ObjectTemplate(sch)
    ELSE IF TypeIs(sch, "array") THEN ArrayTemplate(sch)
    ELSE _get_default(sch)

(***************************************************************************)
(* jsonschema.validate(instance, schema), for the keywords of the model.   *)
(* TRUE when validation succeeds, FALSE when it raises.                    *)
(***************************************************************************)
TypeMatches(v, t) ==
    CASE t = "object" -> IsDict(v)
      [] t = "array" -> IsList(v)
      [] t = "string" -> IsStr(v)
      [] t = "integer" -> IsInt(v)
      [] t = "number" -> IsInt(v) \/ IsFloat(v)
      [] t = "boolean" -> IsBool(v)
      [] OTHER -> FALSE

\* The '#/definitions' of the MCF schema the references point to.
RefMatches(v, r) ==
    CASE r = "#/definitions/date_or_datetime_string" -> IsStr(v)
      [] r = "#/definitions/i18n_string" -> IsStr(v) \/ IsDict(v)
      [] r = "#/definitions/i18n_array" -> IsList(v) \/ IsDict(v)
      [] r = "#/definitions/any_type" -> TRUE
      [] OTHER -> FALSE

RECURSIVE Validates(_, _)
Validates(v, sch) ==
    /\ Has(sch, "type") => TypeMatches(v, sch.type[1])
    /\ Has(sch, "enum") =>
          \E i \in 1..Len(sch.enum[1]) : sch.enum[1][i] = v
    /\ Has(sch, "const") => v = sch.const[1]
    /\ Has(sch, "ref") => RefMatches(v, sch.ref[1])
    /\ IsDict(v) =>
          /\ Has(sch, "required") => sch.required[1] \subseteq Keys(v)
          /\ Has(sch, "properties") =>
                \A p \in (DOMAIN sch.properties[1]) \cap Keys(v) :
                    Validates(v.map[p], sch.properties[1][p])
          /\ Has(sch, "patternProperties") =>
                \A k \in Keys(v) :
                    Validates(v.map[k], sch.patternProperties[1])
    /\ (IsList(v) /\ Has(sch, "items")) =>
          \A i \in 1..Len(v.list) : Validates(v.list[i], sch.items[1])

(***************************************************************************)
(* Schemas given to the functions.                                         *)
(***************************************************************************)
Typed(t) == [Node EXCEPT !.type = <<t>>]
Ref(r) == [Node EXCEPT !.ref = <<r>>]
StringLeaf == Typed("string")

\* Definitions without children.
Leaves ==
    {Typed(t) : t \in {"string", "integer", "number", "boolean", "null"}}
    \cup {Ref(r) : r \in {"#/definitions/date_or_datetime_string",
                          "#/definitions/i18n_string",
                          "#/definitions/i18n_array",
                          "#/definitions/any_type",
                          "#/definitions/other"}}
    \cup {Node,
          [Node EXCEPT !.enum = <<<<PyInt(2), PyInt(1)>>>>],
          [Node EXCEPT !.type = <<"string">>,
                       !.enum = <<<<PyStr("b"), PyStr("a")>>>>],
          [Node EXCEPT !.ref = <<"#/definitions/i18n_string">>,
                       !.enum = <<<<PyStr("z"), PyStr("y")>>>>],
          [Node EXCEPT !.type = <<"string">>, !.const = <<PyStr("1.0")>>]}

\* Shapes without a child to recurse into.
Childless ==
    {Typed("object"),                                 \* no 'properties'
     [Node EXCEPT !.type = <<"object">>, !.properties = <<<<>>>>],
     Typed("array"),                                  \* no 'items'
     [Node EXCEPT !.type = <<"array">>, !.properties = <<<<>>>>]}

\* The dict of alternatives under an 'anyOf' marker.
Alternatives(s) ==
    [Node EXCEPT !.extra = <<[p \in {"a", "b"} |->
                                IF p = "a" THEN s ELSE StringLeaf]>>]

\* The shapes _get_template distinguishes, around a child definition s.
Wrap(s) ==
    {\* object, the child required
     [Node EXCEPT !.type = <<"object">>, !.required = <<{"p"}>>,
                  !.properties = <<[n \in {"p"} |-> s]>>],
     \* object, the child optional beside a required sibling
     [Node EXCEPT !.type = <<"object">>, !.required = <<{"q"}>>,
                  !.properties = <<[n \in {"p", "q"} |->
                                     IF n = "p" THEN s ELSE StringLeaf]>>],
     \* object without a 'required' list
     [Node EXCEPT !.type = <<"object">>,
                  !.properties = <<[n \in {"p", "q"} |->
                                     IF n = "p" THEN s ELSE StringLeaf]>>],
     \* object requiring a name that has no entry under 'properties'
     [Node EXCEPT !.type = <<"object">>, !.required = <<{"p", "z"}>>,
                  !.properties = <<[n \in {"p"} |-> s]>>],
     \* array with 'items'
     [Node EXCEPT !.type = <<"array">>, !.items = <<s>>],
     \* array with inline 'properties' and 'required'
     [Node EXCEPT !.type = <<"array">>, !.required = <<{"p"}>>,
                  !.properties = <<[n \in {"p", "q"} |->
                                     IF n = "p" THEN s ELSE StringLeaf]>>],
     \* array with inline 'properties' and no 'required'
     [Node EXCEPT !.type = <<"array">>,
                  !.properties = <<[n \in {"p"} |-> s]>>],
     \* wildcard-keyed object
     [Node EXCEPT !.type = <<"object">>, !.patternProperties = <<s>>],
     \* object with a disjunction marker beside a required sibling
     [Node EXCEPT !.type = <<"object">>, !.required = <<{"q"}>>,
                  !.properties = <<[n \in {"anyOf", "q"} |->
                                     IF n = "anyOf" THEN Alternatives(s)
                                     ELSE StringLeaf]>>]}

RECURSIVE Schemas(_)
Schemas(d) ==
    IF d = 0 THEN Leaves \cup Childless
    ELSE Schemas(d - 1) \cup UNION {Wrap(s) : s \in Schemas(d - 1)}

IsLeaf(sch) == ~TypeIs(sch, "object") /\ ~TypeIs(sch, "array")
                  /\ ~Has(sch, "properties") /\ ~Has(sch, "items")
                  /\ ~Has(sch, "patternProperties") /\ ~Has(sch, "extra")

(***************************************************************************)
(* MCF_SCHEMA: the part of pygeometa's core MCF schema that the code reads *)
(* and writes, after the module has patched it: 'content_info' and         *)
(* 'dataquality' are required, 'attributes' is required in content_info,   *)
(* and a keywords section requires 'keywords' and 'keywords_type'.         *)
(***************************************************************************)
Object(req, props) ==
    [Node EXCEPT !.type = <<"object">>, !.required = <<req>>,
                 !.properties = <<props>>]
ObjectAll(props) ==
    [Node EXCEPT !.type = <<"object">>, !.properties = <<props>>]
Enum(vals) == [Node EXCEPT !.type = <<"string">>, !.enum = <<vals>>]
Wildcard(sch) ==
    [Node EXCEPT !.type = <<"object">>, !.patternProperties = <<sch>>]
I18nString == Ref("#/definitions/i18n_string")

MCF_VERSION == PyStr("1.0")

AttributeSchema ==
    ObjectAll([name |-> StringLeaf, title |-> StringLeaf,
               abstract |-> StringLeaf, units |-> StringLeaf,
               type |-> StringLeaf])

MCF_SCHEMA ==
    Object({"mcf", "metadata", "spatial", "identification", "content_info",
            "contact", "dataquality"},
      [mcf |-> Object({"version"},
                 [version |-> [Node EXCEPT !.type = <<"string">>,
                                           !.const = <<MCF_VERSION>>]]),
       metadata |-> Object({"identifier", "hierarchylevel", "datestamp"},
                 [identifier |-> StringLeaf,
                  hierarchylevel |-> StringLeaf,
                  datestamp |->
                      Ref("#/definitions/date_or_datetime_string"),
                  dataseturi |-> StringLeaf]),
       spatial |-> Object({"datatype", "geomtype"},
                 [datatype |-> Enum(<<PyStr("vector"), PyStr("grid"),
                                      PyStr("textTable")>>),
                  geomtype |-> Enum(<<PyStr("complex"), PyStr("curve"),
                                      PyStr("point"), PyStr("surface")>>)]),
       identification |-> Object({"title", "abstract", "dates", "keywords",
                                   "extents"},
                 [title |-> I18nString,
                  abstract |-> I18nString,
                  edition |-> StringLeaf,
                  license |-> ObjectAll([name |-> StringLeaf,
                                         url |-> StringLeaf]),
                  accessconstraints |->
                      Enum(<<PyStr("license"), PyStr("copyright"),
                             PyStr("otherRestrictions"), PyStr("")>>),
                  dates |-> ObjectAll(
                      [anyOf |-> [Node EXCEPT !.extra =
                          <<[a \in {"creation", "publication"} |->
                              Ref("#/definitions/date_or_datetime_string")]
                          >>]]),
                  keywords |-> Wildcard(
                      Object({"keywords", "keywords_type"},
                        [keywords |-> Ref("#/definitions/i18n_array"),
                         keywords_type |->
                             Enum(<<PyStr("discipline"), PyStr("place"),
                                    PyStr("stratum"), PyStr("temporal"),
                                    PyStr("theme")>>),
                         vocabulary |-> ObjectAll([name |-> StringLeaf,
                                                   url |-> StringLeaf])])),
                  extents |-> Object({"spatial"},
                      [spatial |->
                          [Node EXCEPT
                              !.type = <<"array">>,
                              !.required = <<{"bbox", "crs"}>>,
                              !.properties =
                                  <<[bbox |-> [Node EXCEPT
                                                 !.type = <<"array">>,
                                                 !.items = <<Typed("number")>>],
                                     crs |-> StringLeaf,
                                     description |-> StringLeaf]>>]])]),
       content_info |-> Object({"type", "attributes"},
                 [type |-> Enum(<<PyStr("image"), PyStr("coverage"),
                                  PyStr("physicalMeasurement")>>),
                  attributes |-> [Node EXCEPT !.type = <<"array">>,
                                              !.items = <<AttributeSchema>>],
                  dimensions |-> [Node EXCEPT !.type = <<"array">>,
                                              !.items = <<StringLeaf>>]]),
       contact |-> Wildcard(
                 ObjectAll([organization |-> StringLeaf,
                            individualname |-> StringLeaf,
                            positionname |-> StringLeaf,
                            email |-> StringLeaf,
                            postalcode |-> StringLeaf])),
       dataquality |-> Object({"lineage"},
                 [lineage |-> Object({"statement"},
                                [statement |-> I18nString]),
                  scope |-> Object({"level"},
                                [level |-> StringLeaf])]),
       acquisition |-> ObjectAll([note |-> StringLeaf])])

(***************************************************************************)
(* Nested dict access: d[k1]...[kn] and d[k1]...[kn] = v.                  *)
(***************************************************************************)
RECURSIVE HasIn(_, _)
HasIn(d, path) ==
    IF path = <<>> THEN TRUE
    ELSE /\ IsDict(d)
         /\ Head(path) \in Keys(d)
         /\ HasIn(d.map[Head(path)], Tail(path))

RECURSIVE GetIn(_, _)
GetIn(d, path) ==
    IF path = <<>> THEN d ELSE GetIn(d.map[Head(path)], Tail(path))

\* Assumes the dicts above the last key exist (HasIn of the front).
RECURSIVE SetIn(_, _, _)
SetIn(d, path, v) ==
    IF Len(path) = 1 THEN PyDict(DictSet(d.map, path[1], v))
    ELSE PyDict(DictSet(d.map, path[1],
                        SetIn(d.map[path[1]], Tail(path), v)))

(***************************************************************************)
(* The dataset on disk, as the probes (pygeoprocessing, gdal, ogr, osr)    *)
(* report it.                                                              *)
(*   gis_type   "raster", "vector", "none" (get_gis_type raises            *)
(*              ValueError) or "unknown" (neither RASTER_TYPE nor          *)
(*              VECTOR_TYPE is returned)                                   *)
(*   geomname   ogr.GeometryTypeToName of the layer                        *)
(*   fields     layer.schema: <<[name, type]>>                             *)
(*   bands      <<[DataType, description]>>                                *)
(*   bbox, epsg bounding box and authority code                            *)
(***************************************************************************)
OGR_MCF_ATTR_TYPE_MAP ==
    ("OFTInteger" :> "integer") @@ ("OFTInteger64" :> "integer")
    @@ ("OFTReal" :> "number") @@ ("OFTString" :> "string")

FieldNames == <<"field_1", "field_2", "field_3", "field_4">>
FieldTypes == <<"OFTInteger", "OFTString", "OFTReal", "OFTInteger64">>

BBoxA == <<0, 0, 2, 2>>
BBoxB == <<1, 1, 3, 3>>

\* A vector of n fields.  In the variant "b" the first field has a type
\* outside the OGR-to-MCF map, the geometry is polygons and the extent
\* differs.
VectorDataset(n, variant) ==
    [gis_type |-> "vector",
     geomname |-> IF variant = "a" THEN "Point" ELSE "Multi Polygon",
     fields |-> [i \in 1..n |->
                   [name |-> FieldNames[i],
                    type |-> IF variant = "b" /\ i = 1 THEN "OFTDate"
                             ELSE FieldTypes[i]]],
     bands |-> <<>>,
     bbox |-> IF variant = "a" THEN BBoxA ELSE BBoxB,
     epsg |-> PyStr("3116")]

GDT_Int16 == 3
GDT_Float32 == 6

\* A raster of n bands.  In the variant "b" the first band is stored as
\* Float32 and carries a description, and the extent differs.
RasterDataset(n, variant) ==
    [gis_type |-> "raster",
     geomname |-> "",
     fields |-> <<>>,
     bands |-> [i \in 1..n |->
                  [DataType |-> IF variant = "b" /\ i = 1 THEN GDT_Float32
                                ELSE GDT_Int16,
                   description |-> IF variant = "b" /\ i = 1 THEN "desc"
                                   ELSE ""]],
     bbox |-> IF variant = "a" THEN BBoxA ELSE BBoxB,
     epsg |-> PyStr("4326")]

OtherDataset(t) ==
    [gis_type |-> t, geomname |-> "", fields |-> <<>>, bands |-> <<>>,
     bbox |-> BBoxA, epsg |-> PyStr("")]

\* The datasets a path can name: every number of fields or bands, and for a
\* dataset of one field or band the variant "b" as well.
Datasets ==
    {VectorDataset(n, "a") : n \in 0..MaxAttrs}
    \cup {RasterDataset(n, "a") : n \in 1..MaxAttrs}
    \cup {VectorDataset(1, "b"), RasterDataset(1, "b")}
    \cup {OtherDataset("none"), OtherDataset("unknown")}

(***************************************************************************)
(* _set_spatial_info: the document with the facts of the dataset filled    *)
(* in, or the exception raised.                                            *)
(***************************************************************************)
\* https://www.fgdc.gov/nap/metadata/register/codelists.html
\* The later test wins: Point, Polygon, Line, Collection.
Contains(geomname, word) ==
    CASE word = "Point" -> geomname \in {"Point", "Multi Point"}
      [] word = "Polygon" -> geomname \in {"Polygon", "Multi Polygon"}
      [] word = "Line" -> geomname \in {"Line String", "Multi Line String"}
      [] word = "Collection" -> geomname \in {"Geometry Collection"}
      [] OTHER -> FALSE

GeomType(geomname) ==
    IF Contains(geomname, "Collection") THEN "complex"
    ELSE IF Contains(geomname, "Line") THEN "curve"
    ELSE IF Contains(geomname, "Polygon") THEN "surface"
    ELSE IF Contains(geomname, "Point") THEN "point"
    ELSE ""

Attribute(name, type, abstract) ==
    PyDict([k \in {"name", "type", "units", "title", "abstract"} |->
              CASE k = "name" -> PyStr(name)
                [] k = "type" -> PyStr(type)
                [] k = "abstract" -> PyStr(abstract)
                [] OTHER -> PyStr("")])

\* A field whose type is missing in the map gets no 'type' key.
UntypedAttribute(name) ==
    PyDict([k \in {"name", "units", "title", "abstract"} |->
              IF k = "name" THEN PyStr(name) ELSE PyStr("")])

VectorAttributes(ds) ==
    [i \in 1..Len(ds.fields) |->
        IF ds.fields[i].type \in DOMAIN OGR_MCF_ATTR_TYPE_MAP
        THEN Attribute(ds.fields[i].name,
                       OGR_MCF_ATTR_TYPE_MAP[ds.fields[i].type], "")
        ELSE UntypedAttribute(ds.fields[i].name)]

RasterAttributes(ds) ==
    [i \in 1..Len(ds.bands) |->
        Attribute("",
                  IF ds.bands[i].DataType < 6 THEN "integer" ELSE "number",
                  ds.bands[i].description)]

SpatialInfo(ds) ==
    PyList(<<PyDict([k \in {"bbox", "crs"} |->
                IF k = "bbox"
                THEN PyList([i \in 1..Len(ds.bbox) |-> PyFloat(ds.bbox[i])])
                ELSE ds.epsg])>>)

\* Mutation: the collection is stored also when the probe found no field
\* or band.
WithAttributes_always(d, attributes) ==
    SetIn(d, <<"content_info", "attributes">>, PyList(attributes))

\* d with the attributes set, when there are any.
WithAttributes(d, attributes) ==
    IF Len(attributes) > 0
    THEN SetIn(d, <<"content_info", "attributes">>, PyList(attributes))
    ELSE d

_set_spatial_info(d, ds) ==
    IF ds.gis_type = "none"
    THEN SetIn(d, <<"metadata", "hierarchylevel">>,
               PyStr("nonGeographicDataset"))
    ELSE IF ds.gis_type = "vector"
    THEN LET d1 == SetIn(d, <<"metadata", "hierarchylevel">>,
                         PyStr("dataset"))
             d2 == SetIn(d1, <<"spatial", "datatype">>, PyStr("vector"))
             d3 == SetIn(d2, <<"content_info", "type">>, PyStr("coverage"))
             d4 == SetIn(d3, <<"spatial", "geomtype">>,
                         PyStr(GeomType(ds.geomname)))
             d5 == WithAttributes(d4, VectorAttributes(ds))
         IN  SetIn(d5, <<"identification", "extents", "spatial">>,
                   SpatialInfo(ds))
    ELSE IF ds.gis_type = "raster"
    THEN LET d1 == SetIn(d, <<"metadata", "hierarchylevel">>,
                         PyStr("dataset"))
             d2 == SetIn(d1, <<"spatial", "datatype">>, PyStr("grid"))
             d3 == SetIn(d2, <<"spatial", "geomtype">>, PyStr("surface"))
             d4 == SetIn(d3, <<"content_info", "type">>, PyStr("image"))
             d5 == WithAttributes(d4, RasterAttributes(ds))
         IN  SetIn(d5, <<"identification", "extents", "spatial">>,
                   SpatialInfo(ds))
    ELSE Raise("UnboundLocalError")     \* gis_info was never assigned

(***************************************************************************)
(* The sidecar file '<datasource>.yml'.                                    *)
(***************************************************************************)
NoFile == [nofile |-> TRUE]
YamlFile(d) == [yaml |-> d]
\* Content that is not the yaml of a dict: "unparsable" text, or the yaml
\* of a "scalar"; or a path that exists and cannot be opened for reading
\* (a directory, a file without read permission): "unreadable".
BrokenFile(kind) == [broken |-> kind]

Exists(file) == file # NoFile

\* yaml.dump(self.mcf, Dumper=_NoAliasDumper) written to the file.
yaml_dump(d) == YamlFile(d)

\* pygeometa.core.read_mcf: the dict, or the exception raised.
read_mcf(file) ==
    IF DOMAIN file = {"yaml"} THEN file.yaml
    ELSE IF file = BrokenFile("scalar") THEN Raise("AttributeError")
    ELSE IF file = BrokenFile("unreadable") THEN Raise("OSError")
    ELSE Raise("MCFReadError")

\* The exception classes of the 'except' clause around read_mcf and
\* validate.
Caught == {"MCFReadError", "ValidationError", "AttributeError"}

\* MetadataControl.validate: TRUE when it returns, FALSE when it raises
\* ValidationError.
validate(d) == Validates(d, MCF_SCHEMA)

(***************************************************************************)
(* MetadataControl.__init__(source_dataset_path)                           *)
(***************************************************************************)
Uuids == <<"uuid-1", "uuid-2", "uuid-3">>
Today == "2024-01-01"
\* datetime.utcnow().strftime('%Y-%m-%d') at the time of a construction.
Days == {Today, "2024-01-02"}

\* The identifiers carried by the document in memory and the one on disk.
UsedIdentifiers(d, file) ==
    {GetIn(x, <<"metadata", "identifier">>) :
        x \in {y \in (IF d = None THEN {} ELSE {d})
                       \cup (IF DOMAIN file = {"yaml"} THEN {file.yaml}
                             ELSE {}) :
                  HasIn(y, <<"metadata", "identifier">>)}}

\* str(uuid.uuid4()): an identifier no existing document carries.  Only
\* the equality of identifiers matters, so the first unused one stands
\* for every value the call can return.
uuid4(d, file) ==
    Uuids[CHOOSE i \in 1..Len(Uuids) :
            /\ PyStr(Uuids[i]) \notin UsedIdentifiers(d, file)
            /\ \A j \in 1..(i - 1) :
                  PyStr(Uuids[j]) \in UsedIdentifiers(d, file)]

\* Mutation: the document read from the sidecar is never kept.
LoadSidecar_discard(file) == None

\* self.mcf after the 'if os.path.exists' block: the document of the
\* sidecar when it can be read and validates, None when reading or
\* validating raised an exception the 'except' clause names; any other
\* exception leaves __init__.
LoadSidecar(file) ==
    IF ~Exists(file) THEN None
    ELSE IF IsErr(read_mcf(file))
    THEN IF read_mcf(file).err \in Caught THEN None ELSE read_mcf(file)
    ELSE IF ~validate(read_mcf(file)) THEN None
    ELSE read_mcf(file)

\* _get_template(MCF_SCHEMA): the same value in every call.
MCF_TEMPLATE == _get_template(MCF_SCHEMA)

\* Mutation: the current date is also stored as the creation date.
FreshDocument_dated(ds, uid, today) ==
    LET t0 == MCF_TEMPLATE
        t1 == SetIn(t0, <<"metadata", "identifier">>, PyStr(uid))
        t2 == _set_spatial_info(t1, ds)
    IN  IF IsErr(t2) THEN t2
        ELSE SetIn(SetIn(t2, <<"metadata", "datestamp">>, PyStr(today)),
                   <<"identification", "dates", "creation">>, PyStr(today))

\* The 'if self.mcf is None' block: a template filled from the dataset,
\* or the exception _set_spatial_info raised.
FreshDocument(ds, uid, today) ==
    LET t0 == MCF_TEMPLATE
        t1 == SetIn(t0, <<"metadata", "identifier">>, PyStr(uid))
        t2 == _set_spatial_info(t1, ds)
    IN  IF IsErr(t2) THEN t2
        ELSE SetIn(t2, <<"metadata", "datestamp">>, PyStr(today))

WithVersion(d) ==
    IF IsErr(d) THEN d
    ELSE IF ~HasIn(d, <<"mcf">>) THEN Raise("KeyError")
    ELSE SetIn(d, <<"mcf", "version">>,
               MCF_SCHEMA.properties[1]["mcf"].properties[1]["version"]
                   .const[1])

\* Mutation: the facts of the dataset are filled in again over a document
\* that was read from the sidecar.
NewDocument_reprobe(ds, file, uid, today) ==
    IF IsErr(LoadSidecar(file)) THEN LoadSidecar(file)
    ELSE IF LoadSidecar(file) # None
    THEN WithVersion(IF ds.gis_type = "unknown" THEN LoadSidecar(file)
                     ELSE _set_spatial_info(LoadSidecar(file), ds))
    ELSE WithVersion(FreshDocument(ds, uid, today))

\* self.mcf when __init__ returns, or the exception it raised.
NewDocument(ds, file, uid, today) ==
    IF IsErr(LoadSidecar(file)) THEN LoadSidecar(file)
    ELSE IF LoadSidecar(file) # None
    THEN WithVersion(LoadSidecar(file))
    ELSE WithVersion(FreshDocument(ds, uid, today))

Constructed == mcf # None

\* One more call or event, while the run has some left.
Count ==
    /\ calls < MaxCalls
    /\ calls' = calls + 1

__init__ ==
    \E today \in Days :
        LET d == NewDocument(dataset, sidecar, uuid4(mcf, sidecar), today)
        IN  /\ Count
            /\ mcf' = IF IsErr(d) THEN mcf ELSE d
            /\ lastOp' = IF IsErr(d) THEN "__init__ raised" ELSE "__init__"
            /\ UNCHANGED <<dataset, sidecar>>
            /\ UNCHANGED tvars

(***************************************************************************)
(* Setters that do not validate.                                           *)
(***************************************************************************)
Titles == {PyStr("Title"), PyInt(5)}

set_title ==
    /\ Constructed
    /\ Count
    /\ \E title \in Titles :
          mcf' = SetIn(mcf, <<"identification", "title">>, title)
    /\ lastOp' = "set_title"
    /\ UNCHANGED <<dataset, sidecar>>
    /\ UNCHANGED tvars

set_abstract ==
    /\ Constructed
    /\ Count
    /\ mcf' = SetIn(mcf, <<"identification", "abstract">>,
                    PyStr("Abstract"))
    /\ lastOp' = "set_abstract"
    /\ UNCHANGED <<dataset, sidecar>>
    /\ UNCHANGED tvars

\* Keyword arguments of the description setters; None is an argument that
\* was not passed.
Descriptions ==
    {[name |-> None, title |-> PyStr("t"), abstract |-> None,
      units |-> PyStr("mm")]}

\* attribute with the keys given as non-None set.
Described(attribute, keys, args) ==
    PyDict([k \in Keys(attribute) \cup {k \in keys : args[k] # None} |->
              IF k \in keys /\ args[k] # None THEN args[k]
              ELSE attribute.map[k]])

Attributes(d) == GetIn(d, <<"content_info", "attributes">>).list

WithAttribute(d, pos, attribute) ==
    SetIn(d, <<"content_info", "attributes">>,
          PyList([Attributes(d) EXCEPT ![pos] = attribute]))

\* Mutation: an index below zero is out of range.
ListPosition_checked(idx, n) ==
    IF idx >= 0 /\ idx < n THEN idx + 1 ELSE 0

\* List position (from 1) that the Python index idx selects in a list of
\* n elements; 0 when the index is out of range.
ListPosition(idx, n) ==
    IF idx >= 0 /\ idx < n THEN idx + 1
    ELSE IF idx < 0 /\ idx >= -n THEN n + idx + 1
    ELSE 0

\* band_number in Spec: the numbers of the bands and one above; SpecDescribe
\* takes the numbers below 1 as well (BandArgs).
BandNumbers == 1..(MaxAttrs + 1)

\* The call and how it ended; a band_number below 1 that returned indexed
\* the list from its end.
BandOutcome(band_number, pos) ==
    IF pos = 0 THEN "set_band_description raised"
    ELSE IF band_number < 1 THEN "set_band_description from the end"
    ELSE "set_band_description"

set_band_description(band_number, args) ==
    /\ Constructed
    /\ Count
    /\ LET pos == ListPosition(band_number - 1, Len(Attributes(mcf)))
       IN  /\ mcf' = IF pos = 0 THEN mcf
                     ELSE WithAttribute(mcf, pos,
                              Described(Attributes(mcf)[pos],
                                  {"name", "title", "abstract", "units"},
                                  args))
           /\ lastOp' = BandOutcome(band_number, pos)
    /\ UNCHANGED <<dataset, sidecar>>
    /\ UNCHANGED tvars

\* get_attr: position of the first attribute named name, 0 when there is
\* none (ValueError).
get_attr(attribute_list, name) ==
    IF \E i \in 1..Len(attribute_list) : attribute_list[i].map["name"] = name
    THEN CHOOSE i \in 1..Len(attribute_list) :
            /\ attribute_list[i].map["name"] = name
            /\ \A j \in 1..(i - 1) : attribute_list[j].map["name"] # name
    ELSE 0

ArgNames == {PyStr(FieldNames[i]) : i \in 1..(MaxAttrs + 1)}

set_field_description(name, args) ==
    /\ Constructed
    /\ Count
    /\ LET pos == get_attr(Attributes(mcf), name)
       IN  IF pos = 0
           THEN /\ mcf' = mcf
                /\ lastOp' = "set_field_description raised"
           ELSE /\ mcf' = WithAttribute(mcf, pos,
                             Described(Attributes(mcf)[pos],
                                 {"title", "abstract", "units"}, args))
                /\ lastOp' = "set_field_description"
    /\ UNCHANGED <<dataset, sidecar>>
    /\ UNCHANGED tvars

(***************************************************************************)
(* Setters that validate the whole document after the update, and their    *)
(* getters.  The update stays in the document when validate() raises.      *)
(***************************************************************************)
\* bool(v): what 'if v:' tests.
Truthy(v) ==
    /\ v # None
    /\ v # PyStr("")
    /\ v # PyInt(0)
    /\ v # PyFloat(0)
    /\ v # PyBool(FALSE)
    /\ v # PyList(<<>>)
    /\ v # PyDict(<<>>)

\* dict.get(key) on the dict at path: None when the key is missing.
GetOrNone(d, path, key) ==
    IF key \in Keys(GetIn(d, path)) THEN GetIn(d, path).map[key] ELSE None

\* The end of a validating setter: the updated document stays, and the
\* call returns or raises ValidationError.
Validated(d, name, raised) ==
    /\ mcf' = d
    /\ lastOp' = IF validate(d) THEN name ELSE raised

\* set_contact --------------------------------------------------------------
ContactFields == {"organization", "individualname", "positionname", "email"}

NoContactArgs ==
    [organization |-> None, individualname |-> None, positionname |-> None,
     email |-> None, section |-> "default", kwargs |-> <<>>]

ContactArgs ==
    {[NoContactArgs EXCEPT !.organization = PyStr("natcap"),
                           !.email = PyStr("abc@def")],
     [NoContactArgs EXCEPT !.organization = PyStr("")],
     [NoContactArgs EXCEPT !.individualname = PyStr("nat"),
                           !.kwargs = [k \in {"postalcode"} |->
                                          PyStr("01234")]],
     [NoContactArgs EXCEPT !.kwargs = [k \in {"postalcode"} |->
                                          PyInt(55555)]],
     [NoContactArgs EXCEPT !.positionname = PyStr("boss"),
                           !.section = "other"]}

\* The assignments the call makes: the named arguments that are truthy,
\* then every keyword argument.
ContactUpdates(args) ==
    [k \in {f \in ContactFields : Truthy(args[f])} \cup DOMAIN args.kwargs |->
        IF k \in DOMAIN args.kwargs THEN args.kwargs[k] ELSE args[k]]

\* The document after the assignments, or KeyError when there is one to
\* make and self.mcf['contact'] has no such section.
WithContact(d, args) ==
    LET updates == ContactUpdates(args)
        contact == GetIn(d, <<"contact">>)
    IN  IF DOMAIN updates = {} THEN d
        ELSE IF args.section \notin Keys(contact) THEN Raise("KeyError")
        ELSE SetIn(d, <<"contact", args.section>>,
                   PyDict([k \in Keys(contact.map[args.section])
                                   \cup DOMAIN updates |->
                              IF k \in DOMAIN updates THEN updates[k]
                              ELSE contact.map[args.section].map[k]]))

set_contact(args) ==
    /\ Constructed
    /\ Count
    /\ IF IsErr(WithContact(mcf, args))
       THEN /\ mcf' = mcf
            /\ lastOp' = "set_contact raised KeyError"
       ELSE Validated(WithContact(mcf, args), "set_contact",
                      "set_contact raised ValidationError")
    /\ UNCHANGED <<dataset, sidecar>>
    /\ UNCHANGED tvars

get_contact(d, section) == GetOrNone(d, <<"contact">>, section)

\* set_edition --------------------------------------------------------------
Editions == {PyStr("3.14"), PyFloat(3)}

WithEdition(d, edition) == SetIn(d, <<"identification", "edition">>, edition)

set_edition(edition) ==
    /\ Constructed
    /\ Count
    /\ Validated(WithEdition(mcf, edition), "set_edition",
                 "set_edition raised ValidationError")
    /\ UNCHANGED <<dataset, sidecar>>
    /\ UNCHANGED tvars

get_edition(d) == GetOrNone(d, <<"identification">>, "edition")

\* set_keywords -------------------------------------------------------------
Vocabulary == PyDict([k \in {"name"} |-> PyStr("thesaurus")])

KeywordArgs ==
    {[keywords |-> PyList(<<PyStr("foo"), PyStr("bar")>>),
      section |-> "default", keywords_type |-> PyStr("theme"),
      vocabulary |-> Vocabulary],
     [keywords |-> PyList(<<PyStr("baz")>>),
      section |-> "default", keywords_type |-> PyStr("theme"),
      vocabulary |-> None],
     [keywords |-> PyList(<<PyStr("baz")>>),
      section |-> "second", keywords_type |-> PyStr("place"),
      vocabulary |-> None],
     \* set_keywords('foo', 'bar'): a bare string as keywords
     [keywords |-> PyStr("foo"),
      section |-> "bar", keywords_type |-> PyStr("theme"),
      vocabulary |-> None]}

\* Mutation: the section is updated with the new entries instead of being
\* replaced.
WithKeywords_update(d, args) ==
    LET sections == GetIn(d, <<"identification", "keywords">>)
        before == IF args.section \in Keys(sections)
                  THEN sections.map[args.section].map ELSE <<>>
        given == {"keywords", "keywords_type"}
                    \cup (IF Truthy(args.vocabulary) THEN {"vocabulary"}
                          ELSE {})
    IN  SetIn(d, <<"identification", "keywords", args.section>>,
              PyDict([k \in (DOMAIN before) \cup given |->
                         IF k \in given THEN args[k] ELSE before[k]]))

WithKeywords(d, args) ==
    LET section_dict ==
            [k \in {"keywords", "keywords_type"}
                     \cup (IF Truthy(args.vocabulary) THEN {"vocabulary"}
                           ELSE {}) |-> args[k]]
    IN  SetIn(d, <<"identification", "keywords", args.section>>,
              PyDict(section_dict))

set_keywords(args) ==
    /\ Constructed
    /\ Count
    /\ Validated(WithKeywords(mcf, args), "set_keywords",
                 "set_keywords raised ValidationError")
    /\ UNCHANGED <<dataset, sidecar>>
    /\ UNCHANGED tvars

\* set_license --------------------------------------------------------------
LicenseArgs ==
    {[license_name |-> None, license_url |-> None],
     [license_name |-> PyStr("CC-BY-4.0"), license_url |-> None],
     [license_name |-> None, license_url |-> PyStr("https://cc.org/by/4.0/")],
     [license_name |-> PyStr(""), license_url |-> None],
     [license_name |-> PyFloat(4), license_url |-> None]}

\* The document after the assignments, or ValueError when neither argument
\* was given.
WithLicense(d, args) ==
    IF args.license_name = None /\ args.license_url = None
    THEN Raise("ValueError")
    ELSE LET constraints ==
                 IF Truthy(args.license_name) \/ Truthy(args.license_url)
                 THEN PyStr("license") ELSE PyStr("")
             license_dict ==
                 [k \in {"name", "url"} |->
                     IF k = "name"
                     THEN IF Truthy(args.license_name) THEN args.license_name
                          ELSE PyStr("")
                     ELSE IF Truthy(args.license_url) THEN args.license_url
                          ELSE PyStr("")]
         IN  SetIn(SetIn(d, <<"identification", "license">>,
                         PyDict(license_dict)),
                   <<"identification", "accessconstraints">>, constraints)

set_license(args) ==
    /\ Constructed
    /\ Count
    /\ IF IsErr(WithLicense(mcf, args))
       THEN /\ mcf' = mcf
            /\ lastOp' = "set_license raised ValueError"
       ELSE Validated(WithLicense(mcf, args), "set_license",
                      "set_license raised ValidationError")
    /\ UNCHANGED <<dataset, sidecar>>
    /\ UNCHANGED tvars

get_license(d) == GetOrNone(d, <<"identification">>, "license")

\* set_lineage --------------------------------------------------------------
Lineages == {PyStr("a lineage statement"),
             PyList(<<PyStr("some statement")>>)}

WithLineage(d, statement) ==
    SetIn(d, <<"dataquality", "lineage", "statement">>, statement)

set_lineage(statement) ==
    /\ Constructed
    /\ Count
    /\ Validated(WithLineage(mcf, statement), "set_lineage",
                 "set_lineage raised ValidationError")
    /\ UNCHANGED <<dataset, sidecar>>
    /\ UNCHANGED tvars

get_lineage(d) == GetOrNone(d, <<"dataquality", "lineage">>, "statement")

\* set_purpose --------------------------------------------------------------
Purposes == {PyStr("foo")}

WithPurpose(d, purpose) == SetIn(d, <<"identification", "purpose">>, purpose)

set_purpose(purpose) ==
    /\ Constructed
    /\ Count
    /\ Validated(WithPurpose(mcf, purpose), "set_purpose",
                 "set_purpose raised ValidationError")
    /\ UNCHANGED <<dataset, sidecar>>
    /\ UNCHANGED tvars

get_purpose(d) == GetOrNone(d, <<"identification">>, "purpose")

(***************************************************************************)
(* write(): the document is dumped to the sidecar as it is.                *)
(***************************************************************************)
\* Mutation: a document that fails validation is not written; the file
\* stays as it was.
_write_mcf_gated(d) == IF validate(d) THEN yaml_dump(d) ELSE sidecar

_write_mcf(d) == yaml_dump(d)

write ==
    /\ Constructed
    /\ Count
    /\ sidecar' = _write_mcf(mcf)
    /\ lastOp' = "write"
    /\ UNCHANGED <<dataset, mcf>>
    /\ UNCHANGED tvars

(***************************************************************************)
(* The environment: the dataset is replaced or edited on disk; the sidecar *)
(* is damaged or deleted by something else.  Only a later call can observe *)
(* such a change, so it is not the last event of a run.                    *)
(***************************************************************************)
Observable == calls + 1 < MaxCalls

DatasetChanges ==
    /\ Count
    /\ Observable
    /\ \E ds \in Datasets : ds # dataset /\ dataset' = ds
    /\ lastOp' = "dataset changed"
    /\ UNCHANGED <<sidecar, mcf>>
    /\ UNCHANGED tvars

SidecarChanges ==
    /\ Count
    /\ Observable
    /\ \E f \in {NoFile, BrokenFile("unparsable"), BrokenFile("scalar"),
                  BrokenFile("unreadable")} :
          f # sidecar /\ sidecar' = f
    /\ lastOp' = "sidecar changed"
    /\ UNCHANGED <<dataset, mcf>>
    /\ UNCHANGED tvars

MInit ==
    /\ dataset \in Datasets
    /\ sidecar = NoFile
    /\ mcf = None
    /\ lastOp = "none"
    /\ calls = 0

TIdle ==
    /\ schema = Node
    /\ op = "none"
    /\ result = None
    /\ result2 = None
    /\ valid = FALSE
    /\ pc = "idle"

Init == MInit /\ TIdle

Next ==
    \/ __init__
    \/ set_title
    \/ set_abstract
    \/ \E band_number \in BandNumbers, args \in Descriptions :
          set_band_description(band_number, args)
    \/ \E name \in ArgNames, args \in Descriptions :
          set_field_description(name, args)
    \/ write
    \/ DatasetChanges
    \/ SidecarChanges

Spec == Init /\ [][Next]_vars

(***************************************************************************)
(* SpecEdit: an editing session.  A MetadataControl was constructed for a  *)
(* dataset without a sidecar; the client then calls setters and write(),   *)
(* MaxEdits times at most.                                                 *)
(***************************************************************************)
EInit ==
    /\ dataset \in {RasterDataset(1, "a"), VectorDataset(1, "a")}
    /\ sidecar = NoFile
    /\ mcf = NewDocument(dataset, NoFile, Uuids[1], Today)
    /\ lastOp = "__init__"
    /\ calls = MaxCalls - MaxEdits

InitEdit == EInit /\ TIdle

NextEdit ==
    \/ set_title
    \/ set_abstract
    \/ \E args \in ContactArgs : set_contact(args)
    \/ \E edition \in Editions : set_edition(edition)
    \/ \E args \in KeywordArgs : set_keywords(args)
    \/ \E args \in LicenseArgs : set_license(args)
    \/ \E statement \in Lineages : set_lineage(statement)
    \/ \E purpose \in Purposes : set_purpose(purpose)
    \/ write

SpecEdit == InitEdit /\ [][NextEdit]_vars

(***************************************************************************)
(* SpecDescribe: the description setters on a document constructed without *)
(* a sidecar, with every band_number around the range of the bands and     *)
(* keyword arguments that overlap.                                         *)
(***************************************************************************)
\* band_number: the numbers of the bands, and as many below 1 and one
\* above.
BandArgs == (-MaxAttrs)..(MaxAttrs + 1)

\* Keyword arguments as in test_raster_attributes: some properties, then
\* another one, then a name and a title again.
DescriptionArgs ==
    {[name |-> None, title |-> PyStr("title"),
      abstract |-> PyStr("some abstract"), units |-> None],
     [name |-> None, title |-> None, abstract |-> None,
      units |-> PyStr("mm")],
     [name |-> PyStr("name"), title |-> PyStr("t"), abstract |-> None,
      units |-> None]}

\* set_field_description has no keyword 'name'.
FieldDescriptionArgs == {args \in DescriptionArgs : args.name = None}

DInit ==
    /\ dataset \in {RasterDataset(n, "a") : n \in 1..MaxAttrs}
                   \cup {VectorDataset(n, "a") : n \in 1..MaxAttrs}
    /\ sidecar = NoFile
    /\ mcf = NewDocument(dataset, NoFile, Uuids[1], Today)
    /\ lastOp = "__init__"
    /\ calls = MaxCalls - MaxEdits

InitDescribe == DInit /\ TIdle

NextDescribe ==
    \/ \E band_number \in BandArgs, args \in DescriptionArgs :
          set_band_description(band_number, args)
    \/ \E name \in ArgNames, args \in FieldDescriptionArgs :
          set_field_description(name, args)

SpecDescribe == InitDescribe /\ [][NextDescribe]_vars

(***************************************************************************)
(* SpecTemplate: one call of _get_default or _get_template, a repeated     *)
(* call, and the validation of the template against its own schema.        *)
(***************************************************************************)
TInit ==
    /\ schema \in Schemas(MaxDepth)
    /\ op = "none"
    /\ result = None
    /\ result2 = None
    /\ valid = FALSE
    /\ pc = "start"

MIdle ==
    /\ dataset = OtherDataset("none")
    /\ sidecar = NoFile
    /\ mcf = None
    /\ lastOp = "none"
    /\ calls = 0

InitTemplate == TInit /\ MIdle

CallGetDefault ==
    /\ pc = "start"
    /\ IsLeaf(schema)
    /\ op' = "_get_default"
    /\ result' = _get_default(schema)
    /\ pc' = "returned"
    /\ UNCHANGED <<schema, result2, valid>>
    /\ UNCHANGED mvars

CallGetTemplate ==
    /\ pc = "start"
    /\ op' = "_get_template"
    /\ result' = _get_template(schema)
    /\ pc' = "returned"
    /\ UNCHANGED <<schema, result2, valid>>
    /\ UNCHANGED mvars

\* The same call once more, on the same argument.
CallAgain ==
    /\ pc = "returned"
    /\ result2' = IF op = "_get_default" THEN _get_default(schema)
                  ELSE _get_template(schema)
    /\ pc' = "repeated"
    /\ UNCHANGED <<schema, op, result, valid>>
    /\ UNCHANGED mvars

\* jsonschema.validate(template, schema), as the tests do on a template.
ValidateTemplate ==
    /\ pc \in {"returned", "repeated"}
    /\ op = "_get_template"
    /\ ~IsErr(result)
    /\ valid' = Validates(result, schema)
    /\ pc' = "validated"
    /\ UNCHANGED <<schema, op, result, result2>>
    /\ UNCHANGED mvars

NextTemplate ==
    \/ CallGetDefault
    \/ CallGetTemplate
    \/ CallAgain
    \/ ValidateTemplate

SpecTemplate == InitTemplate /\ [][NextTemplate]_vars

(***************************************************************************)
(* Properties of template synthesis (checked under SpecTemplate).          *)
(***************************************************************************)
Returned == pc # "start"

\* The names an object or array node declares as required.
RequiredSet(sch) == IF Has(sch, "required") THEN sch.required[1] ELSE {}

\* C1: for every schema the synthesizer accepts, the document that
\* _get_template returns validates against that schema (leaves
\* constrained by enum or const included).
C1_TemplateValidates == pc = "validated" => valid

\* C2: the keys of the mapping synthesized for an object node are exactly
\* the node's required set, also when no 'required' list is declared and
\* when a required name has no entry under 'properties'.
C2_KeysAreRequiredSet ==
    (Returned /\ op = "_get_template" /\ TypeIs(schema, "object")
        /\ IsDict(result))
    => Keys(result) = RequiredSet(schema)

\* A leaf without a default: none of enum / type / $ref, or a type or
\* reference name outside the default table.
BadLeaf(sch) ==
    /\ ~Has(sch, "enum")
    /\ \/ ~Has(sch, "type") /\ ~Has(sch, "ref")
       \/ TypeName(sch) \notin DOMAIN default_values

\* Whether synthesis, walking the schema as documented, comes to a leaf
\* without a default.
RECURSIVE ReachesBadLeaf(_)
ReachesBadLeaf(sch) ==
    IF Has(sch, "patternProperties")
    THEN ReachesBadLeaf(sch.patternProperties[1])
    ELSE IF Has(sch, "extra")
    THEN \E a \in DOMAIN sch.extra[1] : ReachesBadLeaf(sch.extra[1][a])
    ELSE IF TypeIs(sch, "object")
    THEN /\ Has(sch, "properties")
         /\ \E prop \in KeptProperties(sch) :
                ReachesBadLeaf(sch.properties[1][prop])
    ELSE IF TypeIs(sch, "array")
    THEN IF Has(sch, "properties")
         THEN \E prop \in (DOMAIN sch.properties[1]) \cap RequiredSet(sch) :
                  ReachesBadLeaf(sch.properties[1][prop])
         ELSE Has(sch, "items") /\ ReachesBadLeaf(sch.items[1])
    ELSE BadLeaf(sch)

\* C3: _get_template raises if and only if a leaf it reaches has no
\* default; every other shape (object without 'properties' or 'required',
\* array with items, array with inline properties with or without
\* 'required', wildcard-keyed node at any depth) returns a value.
C3_RaisesOnlyOnBadLeaf ==
    (Returned /\ op = "_get_template")
    => (IsErr(result) <=> ReachesBadLeaf(schema))

\* C4: _get_default returns the first declared enum value when the leaf
\* declares an enum (whatever its type or $ref, and again on a repeated
\* call); otherwise '' for string, 0 for integer, 0.0 for number, False
\* for boolean, '' for the date-or-datetime, localized-string and any-type
\* references and [] for the localized-list reference.
C4_DefaultTable ==
    (Returned /\ op = "_get_default")
    => /\ Has(schema, "enum") => result = schema.enum[1][1]
       /\ (~Has(schema, "enum") /\ TypeIs(schema, "string"))
             => result = PyStr("")
       /\ (~Has(schema, "enum") /\ TypeIs(schema, "integer"))
             => result = PyInt(0)
       /\ (~Has(schema, "enum") /\ TypeIs(schema, "number"))
             => result = PyFloat(0)
       /\ (~Has(schema, "enum") /\ TypeIs(schema, "boolean"))
             => result = PyBool(FALSE)
       /\ (~Has(schema, "enum") /\ ~Has(schema, "type")
              /\ Has(schema, "ref")
              /\ schema.ref[1] \in {"#/definitions/date_or_datetime_string",
                                    "#/definitions/i18n_string",
                                    "#/definitions/any_type"})
             => result = PyStr("")
       /\ (~Has(schema, "enum") /\ ~Has(schema, "type")
              /\ Has(schema, "ref")
              /\ schema.ref[1] = "#/definitions/i18n_array")
             => result = PyList(<<>>)
       /\ pc = "repeated" => result2 = result

\* C4 witness: an enum leaf that also names a type was resolved twice, to
\* its first value.
C4_Witness ==
    /\ pc = "repeated" /\ op = "_get_default"
    /\ Has(schema, "enum") /\ Has(schema, "type")
    /\ Len(schema.enum[1]) = 2
    /\ result = PyStr("b") /\ result2 = PyStr("b")

WildcardValue(w) ==
    LET c == PropertyTemplate(w.patternProperties[1])
    IN  IF IsErr(c) THEN c ELSE PyDict([k \in {"default"} |-> c])

\* C6: a wildcard-keyed (patternProperties) node is synthesized to a
\* mapping with the single key "default" holding the synthesis of the
\* wildcard child, wherever the node occurs: as the root, as a property
\* of an object, or as the items schema of an array.
C6_WildcardAnywhere ==
    (Returned /\ op = "_get_template")
    => /\ Has(schema, "patternProperties")
             => result = WildcardValue(schema)
       /\ (TypeIs(schema, "object") /\ ~Has(schema, "patternProperties")
              /\ IsDict(result))
             => \A prop \in Keys(result) :
                    Has(schema.properties[1][prop], "patternProperties")
                    => result.map[prop]
                         = WildcardValue(schema.properties[1][prop])
       /\ (TypeIs(schema, "array") /\ ~Has(schema, "properties")
              /\ Has(schema, "items")
              /\ Has(schema.items[1], "patternProperties"))
             => IF IsErr(WildcardValue(schema.items[1]))
                THEN IsErr(result)
                ELSE result = PyList(<<WildcardValue(schema.items[1])>>)

HasAnyOf(sch) ==
    /\ ~Has(sch, "patternProperties")
    /\ Has(sch, "properties")
    /\ "anyOf" \in DOMAIN sch.properties[1]

\* What C7 says of the mapping m synthesized for the object node o.
AnyOfSiblings(o, m) ==
    /\ IsDict(m)
    /\ \A a \in DOMAIN AnyOfItems(o) :
          /\ a \in Keys(m)
          /\ m.map[a] = _get_template(AnyOfItems(o)[a])
    /\ "anyOf" \notin Keys(m)
    /\ ((DOMAIN o.properties[1]) \cap RequiredSet(o)) \ {"anyOf"}
          \subseteq Keys(m)

\* C7: the mapping synthesized for an object node with a disjunction
\* marker (a child named anyOf under its properties) has one key per
\* alternative holding that alternative's synthesis, no key for the
\* marker, and still the object's other required properties.
C7_AnyOfSiblings ==
    (Returned /\ op = "_get_template" /\ TypeIs(schema, "object")
        /\ IsDict(result))
    => /\ HasAnyOf(schema) => AnyOfSiblings(schema, result)
       /\ ~HasAnyOf(schema) =>
             \A prop \in Keys(result) :
                 HasAnyOf(schema.properties[1][prop])
                 => AnyOfSiblings(schema.properties[1][prop],
                                  result.map[prop])

(***************************************************************************)
(* Properties of MetadataControl construction (checked under Spec).        *)
(***************************************************************************)
\* __init__ has just returned and found a sidecar that loads and validates.
\* (__init__ does not touch the file: it still is what __init__ read.)
LoadedPrior ==
    /\ lastOp = "__init__"
    /\ Exists(sidecar)
    /\ ~IsErr(read_mcf(sidecar))
    /\ validate(read_mcf(sidecar))

\* The document a probe of the dataset gives when there is no sidecar.
Probed(ds) == FreshDocument(ds, Uuids[1], Today)

IntrinsicPaths ==
    {<<"metadata", "hierarchylevel">>, <<"spatial", "datatype">>,
     <<"spatial", "geomtype">>, <<"content_info", "type">>,
     <<"identification", "extents", "spatial">>}

\* The structural part of the field/band collection: names and types.
Structure(d) ==
    [i \in 1..Len(Attributes(d)) |->
        [k \in Keys(Attributes(d)[i]) \cap {"name", "type"} |->
            Attributes(d)[i].map[k]]]

\* C8: with a prior sidecar that loads and validates, construction
\* overwrites the dataset-intrinsic subset (hierarchy level, spatial
\* datatype and geometry type, structure of the field/band collection,
\* spatial extent) with freshly probed values, so that they equal the
\* dataset's current facts.
C8_IntrinsicRefreshed ==
    (LoadedPrior /\ ~IsErr(Probed(dataset)))
    => /\ \A path \in IntrinsicPaths :
              /\ HasIn(mcf, path)
              /\ GetIn(mcf, path) = GetIn(Probed(dataset), path)
       /\ Structure(mcf) = Structure(Probed(dataset))

AuthoredPaths ==
    {<<"identification", "title">>, <<"identification", "abstract">>,
     <<"identification", "edition">>, <<"identification", "purpose">>,
     <<"identification", "license">>, <<"identification", "keywords">>,
     <<"identification", "dates">>, <<"contact">>, <<"dataquality">>}

\* C9: with a prior sidecar that loads and validates, every human-authored
\* property of it (title, abstract, edition, purpose, license, keywords,
\* dates, contacts, lineage) has the same value in the document of a new
\* construction; so what setters stored and write() saved is carried by
\* the new document.
C9_AuthoredKept ==
    LoadedPrior
    => \A path \in AuthoredPaths :
           HasIn(read_mcf(sidecar), path)
           => /\ HasIn(mcf, path)
              /\ GetIn(mcf, path) = GetIn(read_mcf(sidecar), path)

\* C9 witness: a title and an abstract were set and written, and a new
\* construction carries them.
C9_Witness ==
    /\ LoadedPrior
    /\ GetIn(read_mcf(sidecar), <<"identification", "title">>)
         = PyStr("Title")
    /\ GetIn(mcf, <<"identification", "title">>) = PyStr("Title")
    /\ GetIn(mcf, <<"identification", "abstract">>) = PyStr("Abstract")

\* What the probe reports for the fields or bands of the dataset.
ProbedAttributes(ds) ==
    IF ds.gis_type = "vector" THEN VectorAttributes(ds)
    ELSE IF ds.gis_type = "raster" THEN RasterAttributes(ds)
    ELSE <<>>

Intrinsic(attribute) ==
    [k \in Keys(attribute) \cap {"type"} |-> attribute.map[k]]

Descriptive(attribute) ==
    [k \in Keys(attribute) \cap {"title", "abstract", "units"} |->
        attribute.map[k]]

NameOf(attribute) ==
    IF "name" \in Keys(attribute) THEN <<attribute.map["name"]>> ELSE <<>>

\* C10: a field (matched by name) or band (matched by 1-based index) that
\* is in the prior document and in the fresh probe with an equal
\* intrinsic subset has, in the reconciled document, the descriptive
\* fields (title, abstract, units) of the prior entry.
C10_DescriptionsKept ==
    LoadedPrior
    => LET old == Attributes(read_mcf(sidecar))
           fresh == ProbedAttributes(dataset)
           new == Attributes(mcf)
       IN  /\ dataset.gis_type = "vector"
                => \A i \in 1..Len(old), j \in 1..Len(fresh) :
                       (/\ NameOf(old[i]) = NameOf(fresh[j])
                        /\ \A h \in 1..(i - 1) :
                              NameOf(old[h]) # NameOf(old[i])
                        /\ Intrinsic(old[i]) = Intrinsic(fresh[j]))
                       => \E k \in 1..Len(new) :
                              /\ NameOf(new[k]) = NameOf(fresh[j])
                              /\ \A h \in 1..(k - 1) :
                                    NameOf(new[h]) # NameOf(new[k])
                              /\ Descriptive(new[k]) = Descriptive(old[i])
           /\ dataset.gis_type = "raster"
                => \A i \in 1..Len(old) :
                       (i <= Len(fresh)
                        /\ Intrinsic(old[i]) = Intrinsic(fresh[i]))
                       => /\ i <= Len(new)
                          /\ Descriptive(new[i]) = Descriptive(old[i])

\* C10 witness: a described field of unchanged type came back from the
\* sidecar with its description.
C10_Witness ==
    /\ LoadedPrior
    /\ dataset.gis_type = "vector"
    /\ Len(dataset.fields) >= 1
    /\ \E k \in 1..Len(Attributes(mcf)) :
          /\ NameOf(Attributes(mcf)[k]) = <<PyStr(dataset.fields[1].name)>>
          /\ Intrinsic(Attributes(mcf)[k])
               = Intrinsic(VectorAttributes(dataset)[1])
          /\ Descriptive(Attributes(mcf)[k])
               = [title |-> PyStr("t"), abstract |-> PyStr(""),
                  units |-> PyStr("mm")]

\* The prior document was made for a dataset of the kind ("vector" or
\* "raster") that the dataset on disk has now.
PriorOfSameKind ==
    LET prior == read_mcf(sidecar)
    IN  /\ dataset.gis_type \in {"vector", "raster"}
        /\ GetIn(prior, <<"metadata", "hierarchylevel">>) = PyStr("dataset")
        /\ GetIn(prior, <<"spatial", "datatype">>)
             = PyStr(IF dataset.gis_type = "vector" THEN "vector" ELSE "grid")

\* C11: a field (matched by name) or band (matched by index) that is in
\* the prior document and in the fresh probe with a different intrinsic
\* subset has, in the reconciled document, the default descriptive fields
\* of the fresh probe: nothing of the prior entry's description is kept.
C11_DescriptionsReset ==
    (LoadedPrior /\ PriorOfSameKind)
    => LET old == Attributes(read_mcf(sidecar))
           fresh == ProbedAttributes(dataset)
           new == Attributes(mcf)
       IN  /\ dataset.gis_type = "vector"
                => \A i \in 1..Len(old), j \in 1..Len(fresh) :
                       (/\ NameOf(old[i]) = NameOf(fresh[j])
                        /\ Intrinsic(old[i]) # Intrinsic(fresh[j]))
                       => \A k \in 1..Len(new) :
                              NameOf(new[k]) = NameOf(fresh[j])
                              => Descriptive(new[k]) = Descriptive(fresh[j])
           /\ dataset.gis_type = "raster"
                => \A i \in 1..Len(old) :
                       (i <= Len(fresh)
                        /\ Intrinsic(old[i]) # Intrinsic(fresh[i]))
                       => /\ i <= Len(new)
                          /\ Descriptive(new[i]) = Descriptive(fresh[i])

\* C12: a field name or band index of the prior document's collection
\* that the fresh probe of the dataset no longer reports does not appear
\* in the collection of the reconciled document.  (The entry named '' is
\* the placeholder of the template, not a field.)
C12_RemovedKeysDropped ==
    (LoadedPrior /\ PriorOfSameKind)
    => LET old == Attributes(read_mcf(sidecar))
           fresh == ProbedAttributes(dataset)
           new == Attributes(mcf)
       IN  /\ dataset.gis_type = "vector"
                => \A i \in 1..Len(old) :
                       (/\ NameOf(old[i]) # <<PyStr("")>>
                        /\ \A j \in 1..Len(fresh) :
                              NameOf(old[i]) # NameOf(fresh[j]))
                       => \A k \in 1..Len(new) :
                              NameOf(new[k]) # NameOf(old[i])
           /\ dataset.gis_type = "raster"
                => Len(new) <= Len(fresh)

(***************************************************************************)
(* Construction with a malformed or absent sidecar.                        *)
(***************************************************************************)
\* __init__ was the last call, whether it returned or raised.
ConstructionEnded == lastOp \in {"__init__", "__init__ raised"}

\* The sidecar exists and cannot be read or parsed, or parses to a document
\* that fails validation.
Malformed(file) ==
    /\ Exists(file)
    /\ \/ IsErr(read_mcf(file))
       \/ ~validate(read_mcf(file))

GeneratedPaths ==
    <<<<"metadata", "identifier">>, <<"metadata", "datestamp">>>>

\* d with the value at each of the paths blanked.
RECURSIVE Masked(_, _)
Masked(d, paths) ==
    IF paths = <<>> THEN d
    ELSE Masked(IF HasIn(d, Head(paths)) THEN SetIn(d, Head(paths), None)
                ELSE d,
                Tail(paths))

\* C13: when the sidecar is malformed, construction does not raise and
\* gives the document it gives without a sidecar (an identifier and a date
\* of its own apart), with no value of the malformed document in it.
\* Stated for the datasets on which construction without a sidecar
\* returns.
C13_MalformedAsAbsent ==
    (/\ ConstructionEnded
     /\ Malformed(sidecar)
     /\ ~IsErr(NewDocument(dataset, NoFile, Uuids[1], Today)))
    => /\ lastOp = "__init__"
       /\ Masked(mcf, GeneratedPaths)
            = Masked(NewDocument(dataset, NoFile, Uuids[1], Today),
                     GeneratedPaths)

\* C16: for every kind of dataset and every state of the sidecar,
\* construction completes without raising and the document has all
\* required properties and passes validate().
C16_ConstructsValid ==
    ConstructionEnded
    => /\ lastOp = "__init__"
       /\ validate(mcf)

\* __init__ has just returned and there was no sidecar.
FreshlyConstructed == lastOp = "__init__" /\ ~Exists(sidecar)

\* The fields _set_spatial_info derives from the probed dataset.
DerivedPaths ==
    <<<<"metadata", "hierarchylevel">>, <<"spatial", "datatype">>,
      <<"spatial", "geomtype">>, <<"content_info", "type">>,
      <<"content_info", "attributes">>,
      <<"identification", "extents", "spatial">>>>

\* C14 as stated: without a prior sidecar, the constructed document
\* differs from the synthesized template of the schema only in fields
\* whose values are derived from the probed dataset.
C14_TemplateWithProbe ==
    FreshlyConstructed
    => Masked(mcf, DerivedPaths) = Masked(MCF_TEMPLATE, DerivedPaths)

\* The facts of the dataset, as the document of a construction records
\* them.
RecordsFacts(d, ds) ==
    /\ GetIn(d, <<"metadata", "hierarchylevel">>)
         = PyStr(IF ds.gis_type = "none" THEN "nonGeographicDataset"
                 ELSE "dataset")
    /\ ds.gis_type = "none"
         => Masked(d, GeneratedPaths \o <<<<"mcf", "version">>,
                                          <<"metadata", "hierarchylevel">>>>)
              = Masked(MCF_TEMPLATE,
                       GeneratedPaths \o <<<<"mcf", "version">>,
                                           <<"metadata", "hierarchylevel">>>>)
    /\ ds.gis_type \in {"vector", "raster"}
         => /\ GetIn(d, <<"spatial", "datatype">>)
                 = PyStr(IF ds.gis_type = "vector" THEN "vector" ELSE "grid")
            /\ GetIn(d, <<"content_info", "type">>)
                 = PyStr(IF ds.gis_type = "vector" THEN "coverage"
                         ELSE "image")
            /\ ds.gis_type = "raster"
                 => GetIn(d, <<"spatial", "geomtype">>) = PyStr("surface")
            /\ GetIn(d, <<"identification", "extents", "spatial">>)
                 = SpatialInfo(ds)
            /\ Attributes(d)
                 = IF Len(ProbedAttributes(ds)) > 0 THEN ProbedAttributes(ds)
                   ELSE GetIn(MCF_TEMPLATE,
                              <<"content_info", "attributes">>).list

\* C14 as amended: without a prior sidecar, the constructed document is
\* the synthesized template of the schema with the facts of the probed
\* dataset in its derived fields, a new identifier in metadata.identifier,
\* the current date in metadata.datestamp and the schema's constant in
\* mcf.version; it differs from the template in no other field.
C14_TemplateWithFacts ==
    FreshlyConstructed
    => /\ Masked(mcf, DerivedPaths \o GeneratedPaths
                        \o <<<<"mcf", "version">>>>)
            = Masked(MCF_TEMPLATE, DerivedPaths \o GeneratedPaths
                                     \o <<<<"mcf", "version">>>>)
       /\ \E i \in 1..Len(Uuids) :
             GetIn(mcf, <<"metadata", "identifier">>) = PyStr(Uuids[i])
       /\ \E day \in Days :
             GetIn(mcf, <<"metadata", "datestamp">>) = PyStr(day)
       /\ GetIn(mcf, <<"mcf", "version">>) = MCF_VERSION
       /\ RecordsFacts(mcf, dataset)

\* C14 witness: a document constructed for a raster of two or more bands
\* with no sidecar present.
C14_Witness ==
    /\ FreshlyConstructed
    /\ dataset.gis_type = "raster"
    /\ Len(dataset.bands) >= 2
    /\ Len(Attributes(mcf)) = Len(dataset.bands)

\* A step that is a construction made right after a construction: the
\* dataset and the sidecar are what the first one was given, and mcf is
\* the document it produced.
ConstructedTwice == lastOp = "__init__" /\ lastOp' = "__init__"

\* C15 as stated: two constructions given the same dataset and the same
\* existing document (or none) produce equal documents, whatever calls
\* came before.
C15_Deterministic == [][ConstructedTwice => mcf' = mcf]_vars

\* C15 as amended: two constructions given the same dataset and the same
\* existing document produce documents that are equal except for
\* metadata.identifier and metadata.datestamp, which a construction that
\* finds no valid sidecar generates anew; given a sidecar that loads and
\* validates, the two documents are equal.
C15_EqualButGenerated ==
    [][ConstructedTwice
       => /\ Masked(mcf', GeneratedPaths) = Masked(mcf, GeneratedPaths)
          /\ LoadedPrior => mcf' = mcf]_vars

\* C15 witness: the second of two constructions without a sidecar; its
\* document carries the second identifier.
C15_Witness ==
    /\ FreshlyConstructed
    /\ calls = 2
    /\ GetIn(mcf, <<"metadata", "identifier">>) = PyStr(Uuids[2])

ReturnedFromValidatingSetter ==
    lastOp \in {"set_contact", "set_edition", "set_keywords", "set_license",
                "set_lineage", "set_purpose"}

RaisedValidationError ==
    lastOp \in {"set_contact raised ValidationError",
                "set_edition raised ValidationError",
                "set_keywords raised ValidationError",
                "set_license raised ValidationError",
                "set_lineage raised ValidationError",
                "set_purpose raised ValidationError"}

\* C18: a validating setter raises ValidationError when the document that
\* results from its update does not validate, and returns normally
\* otherwise; so the document is valid right after any of them returned.
\* (set_license called without arguments raises ValueError before any
\* update; that call is left aside.)
C18_SettersValidate ==
    /\ RaisedValidationError => ~validate(mcf)
    /\ ReturnedFromValidatingSetter => validate(mcf)
    /\ lastOp # "set_contact raised KeyError"

\* The value a named argument of set_contact was given, if it was given.
GivenToContact(args) ==
    [k \in {f \in ContactFields : args[f] # None} \cup DOMAIN args.kwargs |->
        IF k \in DOMAIN args.kwargs THEN args.kwargs[k] ELSE args[k]]

\* C19: after a setter returned normally, its getter returns what the
\* call was given: the edition, lineage statement and purpose last set;
\* a contact mapping that holds every field given to set_contact; the
\* license {name, url} of the last set_license, '' for an argument that
\* was not given.
C19_SetThenGet ==
    [][/\ \A edition \in Editions :
             (set_edition(edition) /\ lastOp' = "set_edition")
             => get_edition(mcf') = edition
       /\ \A statement \in Lineages :
             (set_lineage(statement) /\ lastOp' = "set_lineage")
             => get_lineage(mcf') = statement
       /\ \A purpose \in Purposes :
             (set_purpose(purpose) /\ lastOp' = "set_purpose")
             => get_purpose(mcf') = purpose
       /\ \A args \in LicenseArgs :
             (set_license(args) /\ lastOp' = "set_license")
             => get_license(mcf')
                  = PyDict([k \in {"name", "url"} |->
                       LET given == IF k = "name" THEN args.license_name
                                    ELSE args.license_url
                       IN  IF given = None THEN PyStr("") ELSE given])
       /\ \A args \in ContactArgs :
             (set_contact(args) /\ lastOp' = "set_contact")
             => /\ get_contact(mcf', args.section) # None
                /\ \A k \in DOMAIN GivenToContact(args) :
                      /\ k \in Keys(get_contact(mcf', args.section))
                      /\ get_contact(mcf', args.section).map[k]
                           = GivenToContact(args)[k]]_vars

KeywordSections(d) == GetIn(d, <<"identification", "keywords">>)

\* C20: set_keywords replaces the section as a whole: afterwards it holds
\* the given keywords and keywords_type, and the vocabulary only if one
\* was given, and nothing else; every other section is unchanged.
C20_SectionReplaced ==
    [][\A args \in KeywordArgs :
          set_keywords(args)
          => /\ Keys(KeywordSections(mcf'))
                  = Keys(KeywordSections(mcf)) \cup {args.section}
             /\ KeywordSections(mcf').map[args.section]
                  = PyDict([k \in {"keywords", "keywords_type"}
                                    \cup (IF args.vocabulary # None
                                          THEN {"vocabulary"} ELSE {}) |->
                               args[k]])
             /\ \A other \in Keys(KeywordSections(mcf)) \ {args.section} :
                   KeywordSections(mcf').map[other]
                     = KeywordSections(mcf).map[other]]_vars

\* C20 witness: the default section was replaced by one without a
\* vocabulary while the section 'second' is in the document.
C20_Witness ==
    /\ lastOp = "set_keywords"
    /\ Keys(KeywordSections(mcf)) = {"default", "second"}
    /\ KeywordSections(mcf).map["default"]
         = PyDict([keywords |-> PyList(<<PyStr("baz")>>),
                   keywords_type |-> PyStr("theme")])


(***************************************************************************)
(* C21: what a description setter changes.                                 *)
(***************************************************************************)
AttributesPath == <<"content_info", "attributes">>

\* The step changed nothing but the properties in keys passed as non-None,
\* on the entry at position pos.
OnlyPassedChangedAt(pos, keys, args) ==
    /\ pos \in 1..Len(Attributes(mcf))
    /\ Len(Attributes(mcf')) = Len(Attributes(mcf))
    /\ SetIn(mcf', AttributesPath, PyList(Attributes(mcf))) = mcf
    /\ \A i \in 1..Len(Attributes(mcf)) :
          i # pos => Attributes(mcf')[i] = Attributes(mcf)[i]
    /\ LET old == Attributes(mcf)[pos]
           new == Attributes(mcf')[pos]
       IN  /\ \A k \in Keys(old) :
                 (k \notin keys \/ args[k] = None)
                 => k \in Keys(new) /\ new.map[k] = old.map[k]
           /\ \A k \in Keys(new) \ Keys(old) :
                 k \in keys /\ args[k] # None

\* C21: a call of set_band_description(band_number, ...) on the document
\* of a raster, or of set_field_description(name, ...) on the document of
\* a vector, that returns changes only the
\* properties passed as non-None, on the entry of the band band_number
\* (counted from 1), or on an entry named name; the other properties of
\* that entry, the other entries, the number of entries and the rest of
\* the document are as before.
C21_OnlyPassedChanged ==
    [][ /\ \A band_number \in BandArgs, args \in DescriptionArgs :
              (/\ dataset.gis_type = "raster"
               /\ set_band_description(band_number, args)
               /\ lastOp' # "set_band_description raised")
              => OnlyPassedChangedAt(band_number,
                     {"name", "title", "abstract", "units"}, args)
        /\ \A name \in ArgNames, args \in FieldDescriptionArgs :
              (/\ dataset.gis_type = "vector"
               /\ set_field_description(name, args)
               /\ lastOp' = "set_field_description")
              => \E pos \in 1..Len(Attributes(mcf)) :
                     /\ Attributes(mcf)[pos].map["name"] = name
                     /\ OnlyPassedChangedAt(pos,
                            {"title", "abstract", "units"}, args)
      ]_vars

\* C21 for the band numbers the docstring allows only, 1 and above: the
\* call changes only the properties passed, on the entry of that band.
C21_FromOne ==
    [][ \A band_number \in BandArgs, args \in DescriptionArgs :
              (/\ band_number >= 1
               /\ dataset.gis_type = "raster"
               /\ set_band_description(band_number, args)
               /\ lastOp' # "set_band_description raised")
              => OnlyPassedChangedAt(band_number,
                     {"name", "title", "abstract", "units"}, args)
      ]_vars

(***************************************************************************)
(* C22: set_contact on a section the document does not have yet.           *)
(***************************************************************************)
\* C22: set_contact called with values and with a section the document
\* does not hold yet does not raise KeyError: it stores the values under
\* that section, and get_contact(section) then returns a mapping that
\* holds them.
C22_AnySection ==
    [][\A args \in ContactArgs :
          (/\ get_contact(mcf, args.section) = None
           /\ DOMAIN GivenToContact(args) # {}
           /\ set_contact(args))
          => /\ lastOp' # "set_contact raised KeyError"
             /\ get_contact(mcf', args.section) # None
             /\ \A k \in DOMAIN GivenToContact(args) :
                   /\ k \in Keys(get_contact(mcf', args.section))
                   /\ get_contact(mcf', args.section).map[k]
                        = GivenToContact(args)[k]
      ]_vars

(***************************************************************************)
(* C23: a validating setter that raised leaves its update in the document. *)
(***************************************************************************)
\* The call that produced the state was one of the validating setters.
ValidatingSetterCalled ==
    \/ ReturnedFromValidatingSetter
    \/ RaisedValidationError
    \/ lastOp \in {"set_contact raised KeyError",
                   "set_license raised ValueError"}

\* C23: when a validating setter raises ValidationError the document holds
\* the value it was given and does not validate; and the next call of a
\* validating setter raises ValidationError again, unless the document it
\* leaves validates.  (set_license called
\* without arguments raises ValueError before any update; that call is
\* left aside.)
C23_NoRollback ==
    [][/\ \A edition \in Editions :
             (/\ set_edition(edition)
              /\ lastOp' = "set_edition raised ValidationError")
             => get_edition(mcf') = edition /\ ~validate(mcf')
       /\ \A statement \in Lineages :
             (/\ set_lineage(statement)
              /\ lastOp' = "set_lineage raised ValidationError")
             => get_lineage(mcf') = statement /\ ~validate(mcf')
       /\ \A args \in LicenseArgs :
             (/\ set_license(args)
              /\ lastOp' = "set_license raised ValidationError"
              /\ Truthy(args.license_name))
             => /\ get_license(mcf').map["name"] = args.license_name
                /\ ~validate(mcf')
       /\ \A args \in KeywordArgs :
             (/\ set_keywords(args)
              /\ lastOp' = "set_keywords raised ValidationError")
             => /\ KeywordSections(mcf').map[args.section].map["keywords"]
                     = args.keywords
                /\ ~validate(mcf')
       /\ \A args \in ContactArgs :
             (/\ set_contact(args)
              /\ lastOp' = "set_contact raised ValidationError")
             => /\ \A k \in DOMAIN ContactUpdates(args) :
                      get_contact(mcf', args.section).map[k]
                        = ContactUpdates(args)[k]
                /\ ~validate(mcf')
       /\ (RaisedValidationError /\ ~validate(mcf) /\ ValidatingSetterCalled')
          => \/ RaisedValidationError' /\ ~validate(mcf')
             \/ ReturnedFromValidatingSetter' /\ validate(mcf')
             \/ lastOp' = "set_license raised ValueError"
      ]_vars

(***************************************************************************)
(* C24: band_number is turned into a list index without a range check.     *)
(***************************************************************************)
BandKeys == {"name", "title", "abstract", "units"}

\* The step set the properties passed as non-None on the entry at position
\* pos and left its other properties and the other entries as they were.
UpdatedExactly(pos, args) ==
    /\ lastOp' # "set_band_description raised"
    /\ Len(Attributes(mcf')) = Len(Attributes(mcf))
    /\ \A i \in 1..Len(Attributes(mcf)) :
          i # pos => Attributes(mcf')[i] = Attributes(mcf)[i]
    /\ Keys(Attributes(mcf')[pos]) = Keys(Attributes(mcf)[pos]) \cup BandKeys
    /\ \A k \in Keys(Attributes(mcf')[pos]) :
          Attributes(mcf')[pos].map[k] =
              IF k \in BandKeys /\ args[k] # None THEN args[k]
              ELSE Attributes(mcf)[pos].map[k]

\* C24: on a collection of N entries, set_band_description(band_number)
\* updates the entry at position band_number when 1 <= band_number <= N;
\* for band_number in -(N-1)..0 it returns as well and updates the entry
\* counted from the end, at position N + band_number (band_number 0: the
\* last one); for any other band_number it raises and the document is
\* unchanged.
C24_NoRangeCheck ==
    [][\A band_number \in BandArgs, args \in DescriptionArgs :
          set_band_description(band_number, args)
          => LET N == Len(Attributes(mcf))
             IN  /\ (1 <= band_number /\ band_number <= N)
                    => UpdatedExactly(band_number, args)
                 /\ (-(N - 1) <= band_number /\ band_number <= 0)
                    => UpdatedExactly(N + band_number, args)
                 /\ (band_number > N \/ band_number < -(N - 1))
                    => /\ lastOp' = "set_band_description raised"
                       /\ mcf' = mcf
      ]_vars

\* C24 witness: the first call on the document of a raster of two bands
\* was given a band_number below 1, returned, and set the title of the
\* first band, not of the last: band_number was -1.
C24_Witness ==
    /\ dataset = RasterDataset(2, "a")
    /\ calls = MaxCalls - MaxEdits + 1
    /\ lastOp = "set_band_description from the end"
    /\ Len(Attributes(mcf)) = 2
    /\ Attributes(mcf)[1].map["title"] = PyStr("title")
    /\ Attributes(mcf)[2].map["title"] = PyStr("")
====
